---- MODULE Spec2Model ----
(***************************************************************************)
(* Model of the Solana program-account indexer (src/src/main.rs): the      *)
(* byte-level decoder of NodeDevice accounts, the reconciliation cycle     *)
(* fetch_program_accounts (upsert, prune, aggregate) against the Postgres  *)
(* tables nodes and network_stats, the background poll loop of main, the   *)
(* read API get_nodes and the decoder of NetworkStats accounts.            *)
(***************************************************************************)
EXTENDS Integers, Sequences, FiniteSets, TLC

(***************************************************************************)
(* Program constants.                                                      *)
(***************************************************************************)
\* &data[8..]: the Anchor discriminator is 8 bytes.
DISCRIMINATOR_LEN == 8
\* slice[0..32]: a Pubkey is 32 bytes.
PUBKEY_BYTES == 32
\* slice[0..4]: the Borsh string length prefix is a u32.
LEN_PREFIX_BYTES == 4
\* if data_len > 40
DEVICE_MIN_LEN == 40
\* INSERT INTO network_stats (id, total_nodes) VALUES (1, $1)
STATS_ROW_ID == 1
\* pub total_nodes: u64 takes 8 bytes in Borsh.
U64_BYTES == 8
\* 16 bytes: the discriminator and one u64, the length of a NetworkStats account
STATS_LEN == DISCRIMINATOR_LEN + U64_BYTES

(***************************************************************************)
(* Bounds of the model.                                                    *)
(***************************************************************************)
\* Largest number of accounts one get_program_accounts result holds.
MaxAccounts == 2
\* Longest uri payload of the buffers given to the decoder alone.
MaxUriBytes == 6

(***************************************************************************)
(* Rust slices: a range that leaves the slice panics.                      *)
(***************************************************************************)
\* &s[from..] panics when from > s.len()
RangeFromPanics(s, from) == from > Len(s)
\* &s[from..]
RangeFrom(s, from) == SubSeq(s, from + 1, Len(s))
\* &s[0..to] panics when to > s.len()
RangeToPanics(s, to) == to > Len(s)
\* &s[0..to]
RangeTo(s, to) == SubSeq(s, 1, to)

Bytes(n, b) == [k \in 1..n |-> b]

\* u32::from_le_bytes
u32_from_le_bytes(b) == b[1] + 256 * b[2] + 65536 * b[3] + 16777216 * b[4]

(***************************************************************************)
(* String::from_utf8: the bytes are kept as they are when they are         *)
(* well-formed UTF-8 (RFC 3629: no overlong forms, no surrogates, nothing  *)
(* above U+10FFFF), and refused otherwise.                                 *)
(***************************************************************************)
IsCont(b) == b >= 128 /\ b <= 191

RECURSIVE Utf8From(_, _)
Utf8From(s, k) ==
    IF k > Len(s) THEN TRUE
    ELSE LET b == s[k]
             n == Len(s) - k
         IN  IF b <= 127 THEN Utf8From(s, k + 1)
             ELSE IF b >= 194 /\ b <= 223
                  THEN n >= 1 /\ IsCont(s[k + 1]) /\ Utf8From(s, k + 2)
             ELSE IF b = 224
                  THEN n >= 2 /\ s[k + 1] >= 160 /\ s[k + 1] <= 191
                       /\ IsCont(s[k + 2]) /\ Utf8From(s, k + 3)
             ELSE IF b = 237
                  THEN n >= 2 /\ s[k + 1] >= 128 /\ s[k + 1] <= 159
                       /\ IsCont(s[k + 2]) /\ Utf8From(s, k + 3)
             ELSE IF b >= 225 /\ b <= 239
                  THEN n >= 2 /\ IsCont(s[k + 1]) /\ IsCont(s[k + 2])
                       /\ Utf8From(s, k + 3)
             ELSE IF b = 240
                  THEN n >= 3 /\ s[k + 1] >= 144 /\ s[k + 1] <= 191
                       /\ IsCont(s[k + 2]) /\ IsCont(s[k + 3])
                       /\ Utf8From(s, k + 4)
             ELSE IF b >= 241 /\ b <= 243
                  THEN n >= 3 /\ IsCont(s[k + 1]) /\ IsCont(s[k + 2])
                       /\ IsCont(s[k + 3]) /\ Utf8From(s, k + 4)
             ELSE IF b = 244
                  THEN n >= 3 /\ s[k + 1] >= 128 /\ s[k + 1] <= 143
                       /\ IsCont(s[k + 2]) /\ IsCont(s[k + 3])
                       /\ Utf8From(s, k + 4)
             ELSE FALSE

from_utf8_ok(bytes) == Utf8From(bytes, 1)

(***************************************************************************)
(* The decoder.  A result is Ok(NodeDevice), Err(AppError) or a panic of   *)
(* the calling task.                                                       *)
(***************************************************************************)
Ok(authority, uri) == [tag |-> "Ok", authority |-> authority, uri |-> uri]
Err == [tag |-> "Err"]
Panic == [tag |-> "Panic"]

\* fn skip_anchor_discriminator(data: &[u8]) -> &[u8] { &data[8..] }
skip_anchor_discriminator_panics(data) == RangeFromPanics(data, DISCRIMINATOR_LEN)
skip_anchor_discriminator(data) == RangeFrom(data, DISCRIMINATOR_LEN)

\* let uri = String::from_utf8(slice[0..uri_len].to_vec())?;
read_uri(authority, slice, uri_len) ==
    IF RangeToPanics(slice, uri_len) THEN Panic
    ELSE LET bytes == RangeTo(slice, uri_len)
         IN  IF from_utf8_ok(bytes) THEN Ok(authority, bytes) ELSE Err

\* Faulty variant: the slice is not moved past the length prefix.
read_uri_len_unadvanced(authority, slice) ==
    IF RangeToPanics(slice, LEN_PREFIX_BYTES) THEN Panic
    ELSE read_uri(authority, slice, u32_from_le_bytes(RangeTo(slice, LEN_PREFIX_BYTES)))

\* let uri_len = u32::from_le_bytes(slice[0..4].try_into()?) as usize;
\* slice = &slice[4..];
read_uri_len(authority, slice) ==
    IF RangeToPanics(slice, LEN_PREFIX_BYTES) THEN Panic
    ELSE read_uri(authority, RangeFrom(slice, LEN_PREFIX_BYTES),
                  u32_from_le_bytes(RangeTo(slice, LEN_PREFIX_BYTES)))

\* let authority_bytes: [u8; 32] = slice[0..32].try_into()?;
\* slice = &slice[32..];
read_authority(slice) ==
    IF RangeToPanics(slice, PUBKEY_BYTES) THEN Panic
    ELSE read_uri_len(RangeTo(slice, PUBKEY_BYTES), RangeFrom(slice, PUBKEY_BYTES))

\* fn deserialize_node_device(data: &[u8]) -> Result<NodeDevice, AppError>
deserialize_node_device(data) ==
    IF skip_anchor_discriminator_panics(data) THEN Panic
    ELSE read_authority(skip_anchor_discriminator(data))

\* Ok(NetworkStats { total_nodes })
OkStats(total) == [tag |-> "Ok", total_nodes |-> total]

\* u64::from_le_bytes.  The value is kept as its eight base-256 digits, the
\* most significant first.
u64_from_le_bytes(b) == [k \in 1..U64_BYTES |-> b[U64_BYTES + 1 - k]]

\* NetworkStats::try_from_slice: Borsh reads one u64 and refuses a slice that
\* ends before it does ("Unexpected length of input") or goes on after it
\* ("Not all bytes read").
try_from_slice(slice) ==
    IF Len(slice) # U64_BYTES THEN Err ELSE OkStats(u64_from_le_bytes(slice))

\* fn deserialize_network_stats(data: &[u8]) -> Result<NetworkStats, AppError>
deserialize_network_stats(data) ==
    IF skip_anchor_discriminator_panics(data) THEN Panic
    ELSE try_from_slice(skip_anchor_discriminator(data))

(***************************************************************************)
(* Pubkey::to_string: the base-58 text of the 32 bytes (Bitcoin alphabet). *)
(* Every leading zero byte gives one "1"; the rest is the number the bytes *)
(* spell, big-endian, written in base 58.                                  *)
(***************************************************************************)
Base58Alphabet ==
    << "1", "2", "3", "4", "5", "6", "7", "8", "9",
       "A", "B", "C", "D", "E", "F", "G", "H", "J", "K", "L", "M", "N", "P",
       "Q", "R", "S", "T", "U", "V", "W", "X", "Y", "Z",
       "a", "b", "c", "d", "e", "f", "g", "h", "i", "j", "k", "m", "n", "o",
       "p", "q", "r", "s", "t", "u", "v", "w", "x", "y", "z" >>

Base58Radix == Len(Base58Alphabet)

\* One long division of a big-endian byte string by the radix:
\* <<quotient bytes, remainder>>.
RECURSIVE Base58Div(_, _, _, _)
Base58Div(num, k, rem, quot) ==
    IF k > Len(num) THEN << quot, rem >>
    ELSE LET cur == rem * 256 + num[k]
         IN  Base58Div(num, k + 1, cur % Base58Radix,
                       Append(quot, cur \div Base58Radix))

\* The base-58 digits of a big-endian byte string, most significant first.
RECURSIVE Base58Digits(_)
Base58Digits(num) ==
    IF \A k \in 1..Len(num) : num[k] = 0 THEN << >>
    ELSE LET qr == Base58Div(num, 1, 0, << >>)
         IN  Append(Base58Digits(qr[1]), qr[2])

RECURSIVE LeadingZeros(_, _)
LeadingZeros(bytes, k) ==
    IF k > Len(bytes) \/ bytes[k] # 0 THEN 0 ELSE 1 + LeadingZeros(bytes, k + 1)

\* The text of base-58 digits, one character each.
RECURSIVE Base58Text(_, _)
Base58Text(digits, k) ==
    IF k > Len(digits) THEN ""
    ELSE Base58Alphabet[digits[k] + 1] \o Base58Text(digits, k + 1)

bs58_encode(bytes) ==
    Base58Text(Bytes(LeadingZeros(bytes, 1), 0) \o Base58Digits(bytes), 1)

(***************************************************************************)
(* The ledger side: what get_program_accounts can return.                  *)
(***************************************************************************)
\* u32::to_le_bytes, the Borsh length prefix of a String.
u32_to_le_bytes(n) ==
    << n % 256, (n \div 256) % 256, (n \div 65536) % 256, (n \div 16777216) % 256 >>

\* The program owns three accounts, A, B and C; this is the address of the
\* n-th.
AccountNumbers == { 1, 2, 3 }
AccountKey(n) == Bytes(PUBKEY_BYTES, n)

\* Two controlling principals; the second one starts with zero bytes.
AuthorityA == Bytes(PUBKEY_BYTES, 7)
AuthorityB == Bytes(PUBKEY_BYTES - 2, 0) \o << 1, 44 >>

\* The 8-byte Anchor discriminator of the NodeDevice account type.
Discriminator == << 155, 24, 61, 9, 210, 3, 77, 140 >>

\* Anchor account data of a NodeDevice whose String field declares `declared`
\* bytes and is followed by `tail`.
DeviceData(authority, declared, tail) ==
    Discriminator \o authority \o u32_to_le_bytes(declared) \o tail

\* "a" and "é" (U+00E9)
UriA == << 97 >>
UriE == << 195, 169 >>

DeviceA == DeviceData(AuthorityA, Len(UriA), UriA)
DeviceB == DeviceData(AuthorityB, Len(UriE), UriE)
\* the uri bytes are not UTF-8: a lone continuation byte
DeviceBadUtf8 == DeviceData(AuthorityA, 1, << 128 >>)
\* 41 bytes: longer than 40, cut inside the length prefix
DeviceTruncated == RangeTo(DeviceA, DEVICE_MIN_LEN + 1)
\* 16 bytes: another discriminator and one u64, the NetworkStats account
StatsDiscriminator == << 72, 201, 13, 88, 5, 190, 34, 117 >>
StatsData(total) == StatsDiscriminator \o << total, 0, 0, 0, 0, 0, 0, 0 >>

\* 40 bytes: discriminator and authority only, a length no layout has
HeaderOnly == RangeTo(DeviceA, DEVICE_MIN_LEN)

AccountData ==
    { DeviceA, DeviceB, DeviceBadUtf8, DeviceTruncated, StatsData(2), StatsData(200),
      HeaderOnly }

Account(n, data) == [pubkey |-> AccountKey(n), data |-> data]

\* Results of `len` accounts whose addresses are those of the accounts
\* numbered above `above`, in rising order (an address occurs once).
RECURSIVE FetchesFrom(_, _)
FetchesFrom(above, len) ==
    IF len = 0 THEN { << >> }
    ELSE UNION { { << Account(n, d) >> \o rest :
                     d \in AccountData, rest \in FetchesFrom(n, len - 1) } :
                   n \in { m \in AccountNumbers : m > above } }

FetchResults == UNION { FetchesFrom(0, len) : len \in 0..MaxAccounts }

\* pubkey.to_string() / node.authority.to_string(), by table
KnownKeys == { AccountKey(n) : n \in AccountNumbers } \cup { AuthorityA, AuthorityB }
KeyText == [k \in KnownKeys |-> bs58_encode(k)]
to_string(pubkey) == KeyText[pubkey]

(***************************************************************************)
(* State.                                                                  *)
(***************************************************************************)
VARIABLES
    pc,                     \* where the spawned poll task is
    accounts,               \* the Vec get_program_accounts returned to the cycle,
                            \* kept on record until the loop goes to sleep
    idx,                    \* position of the for loop in accounts
    on_chain_node_pubkeys,  \* Vec<String> of the cycle
    total_nodes,            \* the i64 the COUNT(*) returned
    result,                 \* what fetch_program_accounts last returned to the loop
    nodes,                  \* table nodes(pubkey PRIMARY KEY, authority, uri)
    network_stats,          \* table network_stats(id PRIMARY KEY, total_nodes)
    last_completed,         \* the fetch result of the cycle before, if it returned Ok
    pre,                    \* the two tables as the running cycle found them
    pruned,                 \* the DELETE of the running cycle has been executed
    repeat,                 \* the same, taken only by a cycle that is given the fetch
                            \* result of the completed cycle right before it
    related,                \* how else the fetch result of the running cycle is like
                            \* that of the completed cycle right before it
    completed_rows,         \* rows of nodes when a cycle last returned Ok, as a set
                            \* of at most one number
    in_flight,              \* calls of fetch_program_accounts that have not returned
    api_response,           \* what get_nodes last answered
    served_at,              \* where the poll task was when get_nodes last answered
    dec_fn,                 \* the decoder dec_in was handed to
    dec_in,                 \* a buffer handed to a decoder alone
    dec_out                 \* what the decoder made of dec_in

vars == << pc, accounts, idx, on_chain_node_pubkeys, total_nodes, result,
           nodes, network_stats, last_completed, pre, pruned, repeat, related,
           completed_rows, in_flight, api_response, served_at, dec_fn, dec_in,
           dec_out >>

cycle_vars == << accounts, idx, on_chain_node_pubkeys, total_nodes >>
store_vars == << nodes, network_stats >>
history_vars == << last_completed, pre, pruned, repeat, related >>
api_vars == << api_response, served_at >>
decoder_vars == << dec_fn, dec_in, dec_out >>

NoFetch == [completed |-> FALSE]
Completed(fetched) == [completed |-> TRUE, accounts |-> fetched]
NoSnapshot == [taken |-> FALSE]
Snapshot == [taken |-> TRUE, nodes |-> nodes, network_stats |-> network_stats]
NotDecoded == [tag |-> "None"]
NoResponse == [status |-> 0]

(***************************************************************************)
(* The store.                                                              *)
(***************************************************************************)
\* Faulty variant: ON CONFLICT (pubkey) DO NOTHING.
UpsertNodeDoNothing(table, pubkey, authority, uri) ==
    IF \E r \in table : r.pubkey = pubkey THEN table
    ELSE table \cup { [pubkey |-> pubkey, authority |-> authority, uri |-> uri] }

\* INSERT INTO nodes (pubkey, authority, uri) VALUES ($1, $2, $3)
\* ON CONFLICT (pubkey) DO UPDATE SET authority = EXCLUDED.authority, uri = EXCLUDED.uri
UpsertNode(table, pubkey, authority, uri) ==
    { r \in table : r.pubkey # pubkey }
        \cup { [pubkey |-> pubkey, authority |-> authority, uri |-> uri] }

Elems(seq) == { seq[k] : k \in 1..Len(seq) }

\* Faulty variant: an empty list deletes nothing (as NOT IN () would).
PruneNodesUnlessEmpty(table, keep) ==
    IF keep = << >> THEN table
    ELSE { r \in table : ~(\A k \in Elems(keep) : r.pubkey # k) }

\* Faulty variant: pubkey = ANY($1), the rows seen are the ones deleted.
PruneNodesSeen(table, keep) == { r \in table : \A k \in Elems(keep) : r.pubkey # k }

\* DELETE FROM nodes WHERE pubkey <> ALL($1)
PruneNodes(table, keep) == { r \in table : ~(\A k \in Elems(keep) : r.pubkey # k) }

\* Faulty variant: the counter of a fetched NetworkStats account is taken when
\* there is one.
CountNodesOnChain(table) ==
    LET stats == { k \in 1..Len(accounts) : Len(accounts[k].data) = STATS_LEN }
    IN  IF stats = {} THEN Cardinality(table)
        ELSE accounts[CHOOSE k \in stats : TRUE].data[DISCRIMINATOR_LEN + 1]

\* SELECT COUNT(*) FROM nodes
CountNodes(table) == Cardinality(table)

\* Faulty variant: ON CONFLICT (id) DO NOTHING.
UpsertStatsDoNothing(table, total) ==
    IF \E r \in table : r.id = STATS_ROW_ID THEN table
    ELSE { [id |-> STATS_ROW_ID, total_nodes |-> total] }

\* Faulty variant: SET total_nodes = network_stats.total_nodes + EXCLUDED.total_nodes.
UpsertStatsAdding(table, total) ==
    { r \in table : r.id # STATS_ROW_ID }
        \cup { [id |-> STATS_ROW_ID, total_nodes |-> total + old] :
                 old \in IF \E r \in table : r.id = STATS_ROW_ID
                         THEN { r.total_nodes : r \in { q \in table : q.id = STATS_ROW_ID } }
                         ELSE { 0 } }

\* INSERT INTO network_stats (id, total_nodes) VALUES (1, $1)
\* ON CONFLICT (id) DO UPDATE SET total_nodes = EXCLUDED.total_nodes
UpsertStats(table, total) ==
    { r \in table : r.id # STATS_ROW_ID }
        \cup { [id |-> STATS_ROW_ID, total_nodes |-> total] }

(***************************************************************************)
(* How two fetch results can be alike.                                     *)
(***************************************************************************)
\* Not longer than 40 bytes: the loop has no branch for the account.
IsUnknownLayout(account) == Len(account.data) <= DEVICE_MIN_LEN

IsKnownLayout(account) == ~IsUnknownLayout(account)

WithoutUnknown(fetched) == SelectSeq(fetched, IsKnownLayout)

\* The same accounts, but for the 8 bytes after the discriminator of accounts
\* of 16 bytes.
SameButStatsPayload(f, g) ==
    /\ Len(f) = Len(g)
    /\ \A k \in 1..Len(f) :
          /\ f[k].pubkey = g[k].pubkey
          /\ \/ f[k].data = g[k].data
             \/ /\ Len(f[k].data) = STATS_LEN
                /\ Len(g[k].data) = STATS_LEN
                /\ RangeTo(f[k].data, DISCRIMINATOR_LEN) = RangeTo(g[k].data, DISCRIMINATOR_LEN)

\* How `fetched` is like the fetch result of the completed cycle before,
\* when it is not that very result.
Relations(before, fetched) ==
    IF ~before.completed \/ before.accounts = fetched THEN {}
    ELSE (IF WithoutUnknown(before.accounts) = WithoutUnknown(fetched)
          THEN { "unknown" } ELSE {})
         \cup
         (IF SameButStatsPayload(before.accounts, fetched) THEN { "stats" } ELSE {})

(***************************************************************************)
(* Init: the poll task is spawned, the tables are provisioned and empty.   *)
(***************************************************************************)
Init ==
    /\ pc = "idle"
    /\ accounts = << >>
    /\ idx = 0
    /\ on_chain_node_pubkeys = << >>
    /\ total_nodes = 0
    /\ result = "None"
    /\ nodes = {}
    /\ network_stats = {}
    /\ last_completed = NoFetch
    /\ pre = NoSnapshot
    /\ pruned = FALSE
    /\ repeat = NoSnapshot
    /\ related = {}
    /\ completed_rows = {}
    /\ in_flight = 0
    /\ api_response = NoResponse
    /\ served_at = "never"
    /\ dec_fn = "none"
    /\ dec_in = << >>
    /\ dec_out = NotDecoded

(***************************************************************************)
(* fetch_program_accounts, one action per awaited step.                    *)
(***************************************************************************)
\* The function returns to the loop and its locals are dropped.
Return(value) ==
    /\ pc' = "returned"
    /\ result' = value
    /\ idx' = 0
    /\ on_chain_node_pubkeys' = << >>
    /\ total_nodes' = 0

\* What a step of a running call leaves on record: the call is over when it
\* has returned or its task has panicked; a call that returned Ok leaves the
\* number of rows nodes then has.
Observe ==
    /\ in_flight' = IF pc' \in { "returned", "panicked" } THEN in_flight - 1 ELSE in_flight
    /\ completed_rows' = IF pc' = "returned" /\ result' = "Ok"
                         THEN { Cardinality(nodes') }
                         ELSE completed_rows

\* Faulty variant: a failed fetch is pruned against as an empty one before the error
\* is returned.
FetchFailsPruning ==
    /\ pc = "idle"
    /\ accounts' = << >>
    /\ last_completed' = NoFetch
    /\ pre' = Snapshot
    /\ pruned' = FALSE
    /\ repeat' = NoSnapshot
    /\ related' = {}
    /\ Return("FetchErr")
    /\ UNCHANGED << completed_rows, in_flight >>
    /\ nodes' = PruneNodes(nodes, << >>)
    /\ UNCHANGED << network_stats, api_vars, decoder_vars >>

\* Pubkey::from_str(program_id)? or client.get_program_accounts(..)? fails.
FetchFails ==
    /\ pc = "idle"
    /\ accounts' = << >>
    /\ last_completed' = NoFetch
    /\ pre' = Snapshot
    /\ pruned' = FALSE
    /\ repeat' = NoSnapshot
    /\ related' = {}
    /\ Return("FetchErr")
    /\ UNCHANGED << completed_rows, in_flight >>
    /\ UNCHANGED << store_vars, api_vars, decoder_vars >>

\* Faulty variant: the loop spawns the call instead of awaiting it, so the next one
\* begins while this one runs.
FetchUnawaited(fetched) ==
    /\ pc \in { "idle", "loop", "count", "stats" }
    /\ accounts' = fetched
    /\ idx' = 1
    /\ on_chain_node_pubkeys' = << >>
    /\ pre' = Snapshot
    /\ pruned' = FALSE
    /\ repeat' = NoSnapshot
    /\ related' = {}
    /\ in_flight' = in_flight + 1
    /\ UNCHANGED completed_rows
    /\ last_completed' = NoFetch
    /\ result' = "None"
    /\ pc' = "loop"
    /\ UNCHANGED << total_nodes, store_vars, api_vars, decoder_vars >>

\* let accounts = client.get_program_accounts(&program_pubkey)?;
\* let mut on_chain_node_pubkeys: Vec<String> = Vec::new();
Fetch(fetched) ==
    /\ pc = "idle"
    /\ accounts' = fetched
    /\ idx' = 1
    /\ on_chain_node_pubkeys' = << >>
    /\ pre' = Snapshot
    /\ pruned' = FALSE
    /\ repeat' = IF last_completed = Completed(fetched) THEN Snapshot ELSE NoSnapshot
    /\ related' = Relations(last_completed, fetched)
    /\ in_flight' = in_flight + 1
    /\ UNCHANGED completed_rows
    /\ last_completed' = NoFetch
    /\ result' = "None"
    /\ pc' = "loop"
    /\ UNCHANGED << total_nodes, store_vars, api_vars, decoder_vars >>

\* Faulty variant: data_len >= 40.
is_device_len_inclusive(data_len) == data_len >= DEVICE_MIN_LEN

\* if data_len > 40
is_device_len(data_len) == data_len > DEVICE_MIN_LEN

\* One turn of `for (pubkey, account) in accounts`.
ProcessAccount(store_ok) ==
    /\ pc = "loop"
    /\ idx <= Len(accounts)
    /\ LET pubkey == accounts[idx].pubkey
           data == accounts[idx].data
           node == deserialize_node_device(data)
       IN  IF is_device_len(Len(data))
           THEN CASE node.tag = "Ok" ->
                       IF store_ok
                       THEN /\ on_chain_node_pubkeys' =
                                   Append(on_chain_node_pubkeys, to_string(pubkey))
                            /\ nodes' = UpsertNode(nodes, to_string(pubkey),
                                                   to_string(node.authority), node.uri)
                            /\ idx' = idx + 1
                            /\ UNCHANGED << pc, result, total_nodes >>
                       ELSE /\ Return("StoreErr")
                            /\ UNCHANGED nodes
                  [] node.tag = "Err" ->
                       /\ idx' = idx + 1
                       /\ UNCHANGED << pc, result, total_nodes,
                                       on_chain_node_pubkeys, nodes >>
                  [] node.tag = "Panic" ->
                       /\ pc' = "panicked"
                       /\ UNCHANGED << result, idx, total_nodes,
                                       on_chain_node_pubkeys, nodes >>
           ELSE /\ idx' = idx + 1
                /\ UNCHANGED << pc, result, total_nodes,
                                on_chain_node_pubkeys, nodes >>
    /\ UNCHANGED << accounts, network_stats, history_vars, api_vars, decoder_vars >>
    /\ Observe

\* Faulty variant: the DELETE does not wait for the end of the loop.
PruneEarly(store_ok) ==
    /\ pc = "loop"
    /\ IF store_ok
       THEN /\ nodes' = PruneNodes(nodes, on_chain_node_pubkeys)
            /\ pruned' = TRUE
            /\ pc' = "count"
            /\ UNCHANGED << result, idx, on_chain_node_pubkeys, total_nodes >>
       ELSE /\ Return("StoreErr")
            /\ UNCHANGED << nodes, pruned >>
    /\ UNCHANGED << accounts, network_stats, last_completed, pre, repeat, related,
                    api_vars, decoder_vars >>
    /\ Observe

\* DELETE FROM nodes WHERE pubkey <> ALL($1), after the loop
Prune(store_ok) ==
    /\ pc = "loop"
    /\ idx > Len(accounts)
    /\ IF store_ok
       THEN /\ nodes' = PruneNodes(nodes, on_chain_node_pubkeys)
            /\ pruned' = TRUE
            /\ pc' = "count"
            /\ UNCHANGED << result, idx, on_chain_node_pubkeys, total_nodes >>
       ELSE /\ Return("StoreErr")
            /\ UNCHANGED << nodes, pruned >>
    /\ UNCHANGED << accounts, network_stats, last_completed, pre, repeat, related,
                    api_vars, decoder_vars >>
    /\ Observe

\* Faulty variant: the aggregate is written with the count, a step early.
CountWriting(store_ok) ==
    /\ pc = "count"
    /\ IF store_ok
       THEN /\ total_nodes' = CountNodes(nodes)
            /\ network_stats' = UpsertStats(network_stats, CountNodes(nodes))
            /\ pc' = "stats"
            /\ UNCHANGED << result, idx, on_chain_node_pubkeys >>
       ELSE /\ Return("StoreErr")
            /\ UNCHANGED network_stats
    /\ UNCHANGED << accounts, nodes, history_vars, api_vars, decoder_vars >>
    /\ Observe

\* let total_nodes: i64 = sqlx::query_scalar("SELECT COUNT(*) FROM nodes")
Count(store_ok) ==
    /\ pc = "count"
    /\ IF store_ok
       THEN /\ total_nodes' = CountNodes(nodes)
            /\ pc' = "stats"
            /\ UNCHANGED << result, idx, on_chain_node_pubkeys >>
       ELSE Return("StoreErr")
    /\ UNCHANGED << accounts, store_vars, history_vars, api_vars, decoder_vars >>
    /\ Observe

\* INSERT INTO network_stats .. ON CONFLICT (id) DO UPDATE ..; Ok(())
UpdateStats(store_ok) ==
    /\ pc = "stats"
    /\ IF store_ok
       THEN /\ network_stats' = UpsertStats(network_stats, total_nodes)
            /\ Return("Ok")
       ELSE /\ Return("StoreErr")
            /\ UNCHANGED network_stats
    /\ UNCHANGED << accounts, nodes, history_vars, api_vars, decoder_vars >>
    /\ Observe

\* main, lines 77-81: an Err is logged, the task sleeps 10 seconds and the loop
\* comes round.
Sleep ==
    /\ pc = "returned"
    /\ pc' = "idle"
    /\ last_completed' = IF result = "Ok" THEN Completed(accounts) ELSE NoFetch
    /\ accounts' = << >>
    /\ pre' = NoSnapshot
    /\ pruned' = FALSE
    /\ repeat' = NoSnapshot
    /\ related' = {}
    /\ UNCHANGED << idx, on_chain_node_pubkeys, total_nodes, result, store_vars,
                    completed_rows, in_flight, api_vars, decoder_vars >>

PollNext ==
    \/ FetchFails
    \/ \E fetched \in FetchResults : Fetch(fetched)
    \/ \E store_ok \in BOOLEAN : ProcessAccount(store_ok)
    \/ \E store_ok \in BOOLEAN : Prune(store_ok)
    \/ \E store_ok \in BOOLEAN : Count(store_ok)
    \/ \E store_ok \in BOOLEAN : UpdateStats(store_ok)
    \/ Sleep

Next == PollNext

Spec == Init /\ [][Next]_vars

(***************************************************************************)
(* The read API next to the poll task: GET /nodes is served at any point   *)
(* of a cycle.  The ledger holds devices and accounts cut short only.      *)
(***************************************************************************)
\* Ok(Json(nodes))
OkJson(rows) == [status |-> 200, body |-> rows]
\* (StatusCode::INTERNAL_SERVER_ERROR, "Failed to fetch nodes from database")
InternalServerError == [status |-> 500, body |-> "Failed to fetch nodes from database"]

\* Faulty variant: the handler refreshes the aggregate while it is at it.
GetNodesWriting(store_ok) ==
    /\ api_response' = IF store_ok THEN OkJson(nodes) ELSE InternalServerError
    /\ served_at' = pc
    /\ network_stats' = IF store_ok THEN UpsertStats(network_stats, CountNodes(nodes))
                        ELSE network_stats
    /\ UNCHANGED << pc, cycle_vars, result, nodes, history_vars, completed_rows,
                    in_flight, decoder_vars >>

\* Faulty variant: the server goes down with the poll task.
GetNodesNeedsPoller(store_ok) ==
    /\ pc # "panicked"
    /\ api_response' = IF store_ok THEN OkJson(nodes) ELSE InternalServerError
    /\ served_at' = pc
    /\ UNCHANGED << pc, cycle_vars, result, store_vars, history_vars, completed_rows,
                    in_flight, decoder_vars >>

\* async fn get_nodes: SELECT pubkey, authority, uri FROM nodes
GetNodes(store_ok) ==
    /\ api_response' = IF store_ok THEN OkJson(nodes) ELSE InternalServerError
    /\ served_at' = pc
    /\ UNCHANGED << pc, cycle_vars, result, store_vars, history_vars, completed_rows,
                    in_flight, decoder_vars >>

ApiAccountData == { DeviceA, DeviceTruncated }

ApiFetchResults ==
    { fetched \in FetchResults :
        \A k \in 1..Len(fetched) : fetched[k].data \in ApiAccountData }

ApiNext ==
    \/ FetchFails
    \/ \E fetched \in ApiFetchResults : Fetch(fetched)
    \/ \E store_ok \in BOOLEAN : ProcessAccount(store_ok)
    \/ \E store_ok \in BOOLEAN : Prune(store_ok)
    \/ \E store_ok \in BOOLEAN : Count(store_ok)
    \/ \E store_ok \in BOOLEAN : UpdateStats(store_ok)
    \/ Sleep
    \/ \E store_ok \in BOOLEAN : GetNodes(store_ok)

ApiSpec == Init /\ [][ApiNext]_vars

(***************************************************************************)
(* The decoder alone, on buffers of every length: device data with every   *)
(* declared length around what follows it, cut at every byte.              *)
(***************************************************************************)
\* "a", "é" (2 bytes), "€" (3 bytes), U+1F496 (4 bytes)
UriSample == << 97, 195, 169, 226, 130, 172, 240, 159, 146, 150 >>

\* a lone continuation byte, an overlong form, a surrogate, a byte no UTF-8 has
UriBad == { << 128 >>, << 192, 128 >>, << 237, 160, 128 >>, << 97, 255 >> }

UriTails ==
    { RangeTo(UriSample, n) : n \in 0..MaxUriBytes }
        \cup { RangeFrom(UriSample, n) : n \in { 3, 6 } }
        \cup UriBad

DeclaredLens == 0..(MaxUriBytes + 1) \cup { 65536, 2147483647 }

DecodeFull ==
    { DeviceData(authority, declared, tail) :
        authority \in { AuthorityA, AuthorityB },
        declared \in DeclaredLens, tail \in UriTails }

\* NetworkStats data whose eight counter bytes all differ, and the same with
\* one byte after it.
StatsCounting == StatsDiscriminator \o << 1, 2, 3, 4, 5, 6, 7, 8 >>

StatsFull == { StatsData(2), StatsData(200), StatsCounting, StatsCounting \o << 9 >> }

DecodeInputs ==
    UNION { { RangeTo(b, n) : n \in 0..Len(b) } : b \in DecodeFull \cup StatsFull }

DecodeInit ==
    /\ pc = "idle"
    /\ accounts = << >>
    /\ idx = 0
    /\ on_chain_node_pubkeys = << >>
    /\ total_nodes = 0
    /\ result = "None"
    /\ nodes = {}
    /\ network_stats = {}
    /\ last_completed = NoFetch
    /\ pre = NoSnapshot
    /\ pruned = FALSE
    /\ repeat = NoSnapshot
    /\ related = {}
    /\ completed_rows = {}
    /\ in_flight = 0
    /\ api_response = NoResponse
    /\ served_at = "never"
    /\ dec_fn = "none"
    /\ dec_in \in DecodeInputs
    /\ dec_out = NotDecoded

\* deserialize_node_device(&dec_in)
DecodeDevice ==
    /\ dec_out = NotDecoded
    /\ dec_out' = deserialize_node_device(dec_in)
    /\ dec_fn' = "device"
    /\ UNCHANGED << pc, cycle_vars, result, store_vars, history_vars, completed_rows,
                    in_flight, api_vars, dec_in >>

\* deserialize_network_stats(&dec_in)
DecodeStats ==
    /\ dec_out = NotDecoded
    /\ dec_out' = deserialize_network_stats(dec_in)
    /\ dec_fn' = "stats"
    /\ UNCHANGED << pc, cycle_vars, result, store_vars, history_vars, completed_rows,
                    in_flight, api_vars, dec_in >>

DecodeNext == DecodeDevice \/ DecodeStats

DecodeSpec == DecodeInit /\ [][DecodeNext]_vars

(***************************************************************************)
(* What a fetch result holds, read off the accounts themselves.            *)
(***************************************************************************)
\* The account is given to the NodeDevice decoder (data_len > 40).
IsDeviceLayout(account) == Len(account.data) > DEVICE_MIN_LEN

Decodes(account) ==
    IsDeviceLayout(account) /\ deserialize_node_device(account.data).tag = "Ok"

FetchedAddresses(fetched) == { to_string(fetched[k].pubkey) : k \in 1..Len(fetched) }

DecodedAddresses(fetched) ==
    { to_string(fetched[k].pubkey) : k \in { j \in 1..Len(fetched) : Decodes(fetched[j]) } }

MirrorAddresses(table) == { r.pubkey : r \in table }

StatsRow(total) == { [id |-> STATS_ROW_ID, total_nodes |-> total] }

CycleCompleted == pc = "returned" /\ result = "Ok"

HeaderLen == DISCRIMINATOR_LEN + PUBKEY_BYTES + LEN_PREFIX_BYTES

(***************************************************************************)
(* C1: after every cycle that returned Ok, the single row of network_stats *)
(* holds total_nodes = the number of rows of nodes, whatever addresses     *)
(* came and went and whatever cycles failed before.                        *)
(***************************************************************************)
AggregateConsistency ==
    (pc \in { "returned", "idle" } /\ result = "Ok")
        => network_stats = StatsRow(Cardinality(nodes))

\* A cycle completed that shrank a mirror of three rows to two, starting from
\* an aggregate that a failed cycle had left stale.
AggregateConsistencyWitness ==
    /\ CycleCompleted
    /\ Cardinality(pre.nodes) = 3
    /\ pre.network_stats # StatsRow(3)
    /\ Cardinality(nodes) = 2

(***************************************************************************)
(* C2: a cycle that ends on a store error has committed nothing: nodes and *)
(* network_stats are as the cycle found them.                              *)
(***************************************************************************)
StoreFailureCommitsNothing ==
    (pc = "returned" /\ result = "StoreErr")
        => (nodes = pre.nodes /\ network_stats = pre.network_stats)

(***************************************************************************)
(* C3: the poll loop never stops: in every state the background task has   *)
(* a next step to take.                                                    *)
(***************************************************************************)
PollLoopNeverStops == ENABLED PollNext

(***************************************************************************)
(* C4: the decoder answers a buffer shorter than 8 + 32 + 4 = 44 bytes     *)
(* with a DecodeError value; it never panics.                              *)
(***************************************************************************)
TruncatedIsDecodeError ==
    (dec_fn = "device" /\ Len(dec_in) < HeaderLen) => dec_out = Err

(***************************************************************************)
(* C5: a cycle whose fetch step failed has issued no store mutation: nodes *)
(* and network_stats are as the cycle found them.                          *)
(***************************************************************************)
FetchFailureLeavesStore ==
    (pc = "returned" /\ result = "FetchErr")
        => (nodes = pre.nodes /\ network_stats = pre.network_stats)

\* A fetch failed over a mirror that holds rows and an aggregate.
FetchFailureLeavesStoreWitness ==
    /\ pc = "returned"
    /\ result = "FetchErr"
    /\ Cardinality(nodes) = 2
    /\ network_stats # {}

(***************************************************************************)
(* C6: after a completed cycle the mirror holds exactly the addresses the  *)
(* cycle decoded as devices, and total_nodes is their number.              *)
(***************************************************************************)
PruningConvergence ==
    CycleCompleted
        => /\ MirrorAddresses(nodes) = DecodedAddresses(accounts)
           /\ Cardinality(nodes) = Cardinality(DecodedAddresses(accounts))
           /\ network_stats = StatsRow(Cardinality(DecodedAddresses(accounts)))

\* The mirror held A, B and C, the fetch decoded A and C only.
PruningConvergenceWitness ==
    /\ CycleCompleted
    /\ MirrorAddresses(pre.nodes) = { to_string(AccountKey(n)) : n \in { 1, 2, 3 } }
    /\ DecodedAddresses(accounts) = { to_string(AccountKey(n)) : n \in { 1, 3 } }
    /\ MirrorAddresses(nodes) = { to_string(AccountKey(n)) : n \in { 1, 3 } }

(***************************************************************************)
(* C7, as claimed: after every cycle whose fetch succeeded, also one that  *)
(* then failed at a store step, no row of nodes has an address that was    *)
(* absent from the fetch.                                                  *)
(***************************************************************************)
MirrorOnlyFetchedAfterAnyCycle ==
    (pc = "returned" /\ result \in { "Ok", "StoreErr" })
        => MirrorAddresses(nodes) \subseteq FetchedAddresses(accounts)

(***************************************************************************)
(* C7, amended: after every cycle whose DELETE was executed, whether the   *)
(* COUNT or the aggregate upsert after it failed or not, no row of nodes   *)
(* has an address that was absent from the fetch.                          *)
(***************************************************************************)
MirrorOnlyFetchedAfterPrune ==
    (pc = "returned" /\ pruned)
        => MirrorAddresses(nodes) \subseteq FetchedAddresses(accounts)

\* A cycle pruned a row whose address its fetch did not hold, and then
\* failed.
MirrorOnlyFetchedAfterPruneWitness ==
    /\ pc = "returned"
    /\ pruned
    /\ result = "StoreErr"
    /\ ~(MirrorAddresses(pre.nodes) \subseteq FetchedAddresses(accounts))
    /\ nodes # {}

(***************************************************************************)
(* C8: a completed cycle that was given the fetch result of the completed  *)
(* cycle right before it leaves nodes and network_stats as it found them.  *)
(***************************************************************************)
IdempotentReconcile ==
    (CycleCompleted /\ repeat.taken)
        => (nodes = repeat.nodes /\ network_stats = repeat.network_stats)

\* The same fetch of two devices, reconciled twice.
IdempotentReconcileWitness ==
    /\ CycleCompleted
    /\ repeat.taken
    /\ Cardinality(nodes) = 2
    /\ \E r \in nodes : r.uri = UriE

(***************************************************************************)
(* C9: an account that fails to decode never ends the cycle: the loop is   *)
(* never brought down at an account the decoder refuses.                   *)
(***************************************************************************)
DecodeFailureIsolated ==
    \A k \in 1..Len(accounts) :
        (IsDeviceLayout(accounts[k]) /\ ~Decodes(accounts[k]))
            => ~(pc = "panicked" /\ idx = k)

(***************************************************************************)
(* C10: the decoder answers with a DecodeError value when the length       *)
(* prefix declares more bytes than follow it, and when the uri bytes are   *)
(* not UTF-8.                                                              *)
(***************************************************************************)
DeclaredLen(data) ==
    u32_from_le_bytes(SubSeq(data, HeaderLen - LEN_PREFIX_BYTES + 1, HeaderLen))

UriOverruns(data) == DeclaredLen(data) > Len(data) - HeaderLen

UriNotUtf8(data) ==
    /\ ~UriOverruns(data)
    /\ ~from_utf8_ok(SubSeq(data, HeaderLen + 1, HeaderLen + DeclaredLen(data)))

BadUriIsDecodeError ==
    (/\ dec_fn = "device"
     /\ Len(dec_in) >= HeaderLen
     /\ UriOverruns(dec_in) \/ UriNotUtf8(dec_in))
        => dec_out = Err

(***************************************************************************)
(* C11: cycles never overlap: at most one call of fetch_program_accounts   *)
(* is running at any time, it is running exactly while the poll task is    *)
(* at one of the call's statements, and a new one begins only when the     *)
(* task is back at the top of the loop with none running.                  *)
(***************************************************************************)
CyclesNeverOverlap ==
    /\ in_flight \in { 0, 1 }
    /\ in_flight = 1 <=> pc \in { "loop", "count", "stats" }

\* A second cycle is at its DELETE after a first one that wrote rows failed.
CyclesNeverOverlapWitness ==
    /\ pc = "count"
    /\ in_flight = 1
    /\ pruned
    /\ pre.nodes # {}
    /\ pre.network_stats = {}

(***************************************************************************)
(* C12: accounts of no known layout (40 bytes or fewer) do not change the  *)
(* outcome of a cycle.  The turn of the loop at such an account leaves the *)
(* tables and the seen list as they are and goes on to the next account;   *)
(* the task never dies at one; and a completed cycle whose fetch is that   *)
(* of the completed cycle before it, but for such accounts added or        *)
(* removed, leaves nodes and network_stats as that cycle left them.        *)
(***************************************************************************)
AtUnknownLayout ==
    pc = "loop" /\ idx <= Len(accounts) /\ IsUnknownLayout(accounts[idx])

UnknownLayoutTolerated ==
    /\ [](pc = "panicked" => IsDeviceLayout(accounts[idx]))
    /\ []((CycleCompleted /\ "unknown" \in related)
            => (nodes = pre.nodes /\ network_stats = pre.network_stats))
    /\ [][AtUnknownLayout
            => /\ pc' = "loop"
               /\ idx' = idx + 1
               /\ UNCHANGED << store_vars, on_chain_node_pubkeys >>]_vars

\* A 40-byte account came with the device that the cycle before had fetched
\* alone, and the cycle completed.
UnknownLayoutToleratedWitness ==
    /\ CycleCompleted
    /\ "unknown" \in related
    /\ Len(accounts) = 2
    /\ accounts[2].data = HeaderOnly
    /\ Decodes(accounts[1])
    /\ nodes # {}

(***************************************************************************)
(* C13: the persisted total_nodes does not depend on the on-chain counter: *)
(* a completed cycle whose fetch is that of the completed cycle before it, *)
(* but for the u64 of its 16-byte accounts, leaves nodes and network_stats *)
(* as that cycle left them.                                                *)
(***************************************************************************)
OnChainCounterIgnored ==
    (CycleCompleted /\ "stats" \in related)
        => (nodes = pre.nodes /\ network_stats = pre.network_stats)

\* The on-chain counter went to 200 over a mirror of one device.
OnChainCounterIgnoredWitness ==
    /\ CycleCompleted
    /\ "stats" \in related
    /\ \E k \in 1..Len(accounts) : accounts[k].data = StatsData(200)
    /\ Cardinality(nodes) = 1
    /\ network_stats = StatsRow(1)

(***************************************************************************)
(* C14: once a cycle has completed, network_stats holds in every state,    *)
(* mid-cycle and after failed cycles too, the number of rows nodes had     *)
(* when a cycle last completed; and network_stats changes only in the      *)
(* last step of a cycle, the one that makes it return Ok.                  *)
(***************************************************************************)
AggregateAsOfLastCompleted ==
    /\ [](\A n \in completed_rows : network_stats = StatsRow(n))
    /\ [][network_stats' # network_stats
            => (pc = "stats" /\ pc' = "returned" /\ result' = "Ok")]_vars

\* A cycle failed after it had brought nodes from one row to two: the
\* aggregate still says one.
AggregateAsOfLastCompletedWitness ==
    /\ pc = "returned"
    /\ result = "StoreErr"
    /\ completed_rows = { 1 }
    /\ Cardinality(nodes) = 2
    /\ network_stats = StatsRow(1)

(***************************************************************************)
(* C15: decode round trip: the buffer made of a discriminator, a 32-byte   *)
(* authority, the little-endian length of a UTF-8 uri and the uri decodes  *)
(* to that authority and that uri, the empty uri included.                 *)
(***************************************************************************)
\* "", "a", "a\u00E9", "a\u00E9\u20AC", "\u20AC" and U+1F496, U+1F496 alone
ValidUris ==
    { RangeTo(UriSample, n) : n \in { 0, 1, 3, 6 } }
        \cup { RangeFrom(UriSample, n) : n \in { 3, 6 } }

DecodeRoundTrip ==
    \A authority \in { AuthorityA, AuthorityB } :
        \A uri \in ValidUris :
            (dec_fn = "device" /\ dec_in = DeviceData(authority, Len(uri), uri))
                => dec_out = Ok(authority, uri)

\* The 44-byte buffer of an empty uri was decoded.
DecodeRoundTripWitness ==
    /\ dec_fn = "device"
    /\ Len(dec_in) = HeaderLen
    /\ dec_in = DeviceData(AuthorityB, 0, << >>)
    /\ dec_out = Ok(AuthorityB, << >>)

(***************************************************************************)
(* C16: the state after a completed cycle is a function of the cycle's     *)
(* fetch alone: whatever the tables held before, nodes holds one row per   *)
(* account of the fetch that decoded as a device, with the address of the  *)
(* account and the authority and uri decoded from it, and nothing else,    *)
(* and total_nodes is the number of these rows.                            *)
(***************************************************************************)
ExpectedRows(fetched) ==
    { [pubkey |-> to_string(fetched[k].pubkey),
       authority |-> to_string(deserialize_node_device(fetched[k].data).authority),
       uri |-> deserialize_node_device(fetched[k].data).uri] :
        k \in { j \in 1..Len(fetched) : Decodes(fetched[j]) } }

SelfHealing ==
    CycleCompleted
        => /\ nodes = ExpectedRows(accounts)
           /\ network_stats = StatsRow(Cardinality(ExpectedRows(accounts)))

\* The cycle began over an aggregate that disagreed with the mirror, rewrote
\* the uri of a row in place and pruned another row.
SelfHealingWitness ==
    /\ CycleCompleted
    /\ pre.network_stats # StatsRow(Cardinality(pre.nodes))
    /\ \E r \in pre.nodes : \E q \in nodes :
          r.pubkey = q.pubkey /\ r.uri # q.uri /\ r.authority # q.authority
    /\ ~(MirrorAddresses(pre.nodes) \subseteq MirrorAddresses(nodes))

(***************************************************************************)
(* C17: over-retention bias.  The DELETE is executed only when the loop is *)
(* over and every account that decodes has been upserted and is on the     *)
(* seen list; rows leave nodes only in that step, and only rows whose      *)
(* address is not on the seen list; the COUNT and the aggregate write come *)
(* only after the DELETE; and a cycle that ends before its DELETE, at an   *)
(* upsert or by a panic, has deleted no row.                               *)
(***************************************************************************)
RowsRemoved == MirrorAddresses(nodes) \ MirrorAddresses(nodes')

OverRetention ==
    /\ [][(~pruned /\ pruned')
            => /\ pc = "loop"
               /\ idx = Len(accounts) + 1
               /\ Elems(on_chain_node_pubkeys) = DecodedAddresses(accounts)
               /\ ExpectedRows(accounts) \subseteq nodes]_vars
    /\ [][RowsRemoved # {}
            => /\ ~pruned /\ pruned'
               /\ RowsRemoved \cap Elems(on_chain_node_pubkeys) = {}]_vars
    /\ [](pc \in { "count", "stats" } => pruned)
    /\ []((pc \in { "returned", "panicked" } /\ ~pruned)
            => MirrorAddresses(pre.nodes) \subseteq MirrorAddresses(nodes))

\* Two devices were upserted, then the DELETE took away the row of an
\* address that was not fetched.
OverRetentionWitness ==
    /\ pc = "count"
    /\ pruned
    /\ Len(on_chain_node_pubkeys) = 2
    /\ ~(MirrorAddresses(pre.nodes) \subseteq MirrorAddresses(nodes))
    /\ Cardinality(nodes) = 2

(***************************************************************************)
(* C18: the read API writes nothing: a step in which GET /nodes is         *)
(* answered, with the rows or with an error, at whatever point of a poll   *)
(* cycle, leaves nodes and network_stats as they are.                      *)
(***************************************************************************)
ReadApiWritesNothing ==
    [][api_vars' # api_vars => UNCHANGED store_vars]_vars

\* The rows were served between the first upsert of a cycle and the second
\* account.
ReadApiWritesNothingWitness ==
    /\ pc = "loop"
    /\ idx = 2
    /\ served_at = "loop"
    /\ api_response = OkJson(nodes)
    /\ nodes # pre.nodes
    /\ network_stats # StatsRow(Cardinality(nodes))

(***************************************************************************)
(* C19: deserialize_network_stats answers a buffer shorter than 16 bytes,  *)
(* shorter than 8 too, with a DecodeError value and never panics; of a     *)
(* buffer of exactly 16 bytes it returns the last 8 read as a              *)
(* little-endian unsigned integer.                                         *)
(***************************************************************************)
ShortStatsIsDecodeError ==
    /\ (dec_fn = "stats" /\ Len(dec_in) < STATS_LEN) => dec_out = Err
    /\ (dec_fn = "stats" /\ Len(dec_in) = STATS_LEN)
          => dec_out = OkStats([k \in 1..U64_BYTES |-> dec_in[STATS_LEN + 1 - k]])

(***************************************************************************)
(* C20: the poll task and the read API are isolated: once the poll task    *)
(* has panicked it stays dead, no cycle begins, nodes and network_stats    *)
(* never change again, and GET /nodes can still be answered.               *)
(***************************************************************************)
PollTaskIsolated ==
    /\ [][pc = "panicked"
            => /\ pc' = "panicked"
               /\ UNCHANGED << store_vars, cycle_vars, in_flight >>]_vars
    /\ [](pc = "panicked" => ENABLED GetNodes(TRUE))

\* The task panicked at the second account after it had upserted the first;
\* the rows were served after that.
PollTaskIsolatedWitness ==
    /\ pc = "panicked"
    /\ idx = 2
    /\ served_at = "panicked"
    /\ api_response = OkJson(nodes)
    /\ nodes # pre.nodes

====
